---- MODULE Spec2Model ----
(***************************************************************************)
(* SweetShopMa back office (web-app/backend/api): catalog, cart, checkout, *)
(* restock and attendance, modelled as operations on the relational store. *)
(*                                                                         *)
(* Decimal columns are fixed point.  Quantities and stocks are counted in  *)
(* ticks of 0.0001, so that a request can carry one more decimal place     *)
(* than the 3-place columns keep; prices and order totals are counted in   *)
(* cents.  A value written to a column is rounded to the column's places.  *)
(***************************************************************************)
EXTENDS Integers, Sequences, FiniteSets, TLC

VARIABLES
    users,            \* User table: username -> row
    products,         \* Product table: id -> row
    cart,             \* CartItem table, in primary-key order
    orders,           \* Order table, in primary-key order
    order_items,      \* OrderItem table, in primary-key order
    restock_records,  \* RestockRecord table, in primary-key order
    resp,             \* the response to the last request served
    requests,         \* number of requests served so far
    attendance,       \* AttendanceRecord table, in primary-key order
    creates,          \* POST /attendance/ requests in flight: slot -> request
    flights           \* restock, checkout and cart requests in flight: slot -> request

vars == <<users, products, cart, orders, order_items, restock_records, resp, requests,
          attendance, creates, flights>>

-----------------------------------------------------------------------------
(* Bounds of the model *)

\* Requests served in one behaviour.
MaxRequests == 3

\* POST /attendance/ requests that may be in flight together.
MaxCreates == 2

\* AttendanceRecord rows in the table a monthly summary is taken of.
MaxRecords == 2

\* Restock, checkout and cart requests that may be in flight together.
MaxFlights == 2

-----------------------------------------------------------------------------
(* Decimal arithmetic *)

\* Ticks in 0.001, the resolution of the 3-place quantity and stock columns.
QtyUnit == 10

\* Ticks in 1: int(quantity) drops what is below it.
One == 1000 * QtyUnit

\* price (cents) * quantity (ticks) counts 1/CentUnit of a cent: the 2-place
\* money columns keep whole cents.
CentUnit == One

Abs(x) == IF x < 0 THEN -x ELSE x

\* The multiples of unit nearest to x: what a column of that resolution may
\* hold after x is written to it.  Where x lies halfway the backend decides
\* (Django's format_number rounds half to even, PostgreSQL's numeric rounds
\* half away from zero), so both neighbours are outcomes.
Quantize(x, unit) ==
    LET lo == (x \div unit) * unit
    IN  {r \in {lo, lo + unit} : 2 * Abs(x - r) <= unit}

\* int(Decimal): truncation toward zero, in whole units.
IntOf(q) == IF q >= 0 THEN q \div One ELSE -((-q) \div One)

RECURSIVE SumSeq(_)
SumSeq(s) == IF s = <<>> THEN 0 ELSE Head(s) + SumSeq(Tail(s))

-----------------------------------------------------------------------------
(* The store after construction *)

Usernames == {"ama", "bob"}

ProductIds == {"p1", "p2"}

\* An id no Product row has.
UnknownProductId == "p9"

StockRoles == {"Developer", "Admin", "Moderator"}

\* quantity values of POST /cart/, in ticks: -1, 0.0004, 1.5, 2 and 3.
QuantityInputs == {-One, 4, 15 * 100 * QtyUnit, 2 * One, 3 * One}

\* quantity values of POST /products/<id>/restock/: -1, 0.0004 and 2.
RestockInputs == {-One, 4, 2 * One}

\* quantity values of PUT /cart/<id>/: -1, 0.0004 and 2.
UpdateInputs == {-One, 4, 2 * One}

\* The quantity of a request body: one of qs, or left out.
QuantityFields(qs) ==
    [has_quantity : {TRUE}, quantity : qs]
        \cup {[has_quantity |-> FALSE, quantity |-> 0]}

\* Request bodies carrying a product id and a quantity.
CartRequests(qs) ==
    {[product_id |-> p, has_quantity |-> f.has_quantity, quantity |-> f.quantity] :
        p \in ProductIds \cup {UnknownProductId}, f \in QuantityFields(qs)}

\* Bodies of POST /cart/, of PUT /cart/<id>/ and of POST /products/<id>/restock/
CartCreateRequests == CartRequests(QuantityInputs)
CartUpdateRequests == CartRequests(UpdateInputs)
RestockRequests == QuantityFields(RestockInputs)

\* Bodies of PUT /products/<id>/: the second breaks the stock validator, the
\* third the price validator.
ProductPayloads ==
    { [name |-> "Candy", emoji |-> "C", price |-> 199, stock |-> One,
       is_sold_by_weight |-> TRUE],
      [name |-> "Candy", emoji |-> "C", price |-> 199, stock |-> -One,
       is_sold_by_weight |-> TRUE],
      [name |-> "Candy", emoji |-> "C", price |-> 0, stock |-> One,
       is_sold_by_weight |-> TRUE] }

\* The body of POST /cart/ and of restock the catalog runs use: one unit of
\* p1 (no quantity named), and a delivery of 2
CatalogCartRequests ==
    {[product_id |-> "p1", has_quantity |-> FALSE, quantity |-> 0]}
CatalogRestockRequests == {[has_quantity |-> TRUE, quantity |-> 2 * One]}

\* The id the store gives the next Product row
NewProductId == "p3"

\* What on_delete=SET_NULL leaves in a foreign key
Null == "null"

\* User.ROLE_CHOICES
Roles == {"Developer", "Admin", "Moderator", "User"}

\* Bodies of PATCH /users/<id>/: "" stands for a field left out
UserPayloads ==
    { [role |-> "Moderator", is_enabled |-> ""],
      [role |-> "Admin", is_enabled |-> ""],
      [role |-> "", is_enabled |-> "false"] }

\* A username no User row has
UnknownUsername == "eve"

\* Bodies of POST /auth/login/: "right" is the password of the named user, ""
\* a password left out
Credentials ==
    [username : Usernames, password : {"right", "wrong"}]
        \cup { [username |-> UnknownUsername, password |-> "right"],
               [username |-> "bob", password |-> ""] }

\* The routes that list a table
ListViews == {"users", "products", "cart", "orders", "attendance", "restock-records"}

NoResponse == [op |-> "none", user |-> "none", status |-> 0, error |-> ""]

CreateSlots == 1..MaxCreates

\* A date DateField parses, and a string it does not.
AttendanceDate == "2024-01-05"
MalformedDate == "05/01/2024"

\* A primary key no User row has.
UnknownUserId == "zed"

\* Bodies of POST /attendance/: "" stands for a field left out.
AttendanceRequests ==
    [user_id : Usernames, date : {AttendanceDate}, status : {"Present", "Absent"}]
        \cup { [user_id |-> "", date |-> AttendanceDate, status |-> "Present"],
               [user_id |-> UnknownUserId, date |-> AttendanceDate, status |-> "Present"],
               [user_id |-> "bob", date |-> "", status |-> "Present"],
               [user_id |-> "bob", date |-> MalformedDate, status |-> "Present"] }

NoData == [user_id |-> "", date |-> "", status |-> ""]

\* A slot no request occupies.
IdleCreate == [pc |-> "idle", actor |-> "none", data |-> NoData,
               status |-> 0, error |-> "", duplicate |-> FALSE]

FlightSlots == 1..MaxFlights

\* A Product instance a handler holds none of
NoInstance == [name |-> "", emoji |-> "", price |-> 0, stock |-> 0,
               is_sold_by_weight |-> FALSE]

\* A slot no request occupies
IdleFlight == [kind |-> "none", pc |-> "idle", user |-> "none", product |-> Null,
               quantity |-> 0, instance |-> NoInstance, rows |-> <<>>, order |-> 0,
               idx |-> 0, stock |-> 0, status |-> 0, error |-> "",
               overlapped |-> FALSE, row_gone |-> FALSE]

Init ==
    /\ users = [u \in Usernames |->
                  IF u = "ama"
                  THEN [name |-> "ahmad", role |-> "Developer", is_enabled |-> TRUE]
                  ELSE [name |-> "", role |-> "User", is_enabled |-> TRUE]]
    /\ products = [p \in ProductIds |->
                  IF p = "p1"
                  THEN [name |-> "Donut", emoji |-> "D", price |-> 249,
                        stock |-> 3 * One, is_sold_by_weight |-> FALSE]
                  ELSE [name |-> "Fudge", emoji |-> "F", price |-> 100,
                        stock |-> 2 * One, is_sold_by_weight |-> TRUE]]
    /\ cart = <<>>
    /\ orders = <<>>
    /\ order_items = <<>>
    /\ restock_records = <<>>
    /\ resp = NoResponse
    /\ requests = 0
    /\ attendance = <<>>
    /\ creates = [r \in CreateSlots |-> IdleCreate]
    /\ flights = [w \in FlightSlots |-> IdleFlight]

-----------------------------------------------------------------------------
(* Helpers shared by the handlers *)

Response(op, u, status, error) ==
    [op |-> op, user |-> u, status |-> status, error |-> error]

\* request.user.name or request.user.username
UserName(u) == IF users[u].name # "" THEN users[u].name ELSE u

\* IsDeveloperAdminOrModerator.has_permission
IsDeveloperAdminOrModerator(u) == users[u].role \in StockRoles

\* CartItem.objects.filter(user=u), as positions in the table
CartPositions(u) == {i \in 1..Len(cart) : cart[i].user = u}

\* Mutant: the filter on the user is lost
CartOfAnyone(u) == cart

\* The same, as the rows in primary-key order
CartOf(u) == SelectSeq(cart, LAMBDA row : row.user = u)

\* Positions of the rows for (u, p): the unique_together pair
RowsFor(u, p) == {i \in 1..Len(cart) : cart[i].user = u /\ cart[i].product = p}

\* A request is served: the bound of the model
Served == /\ requests < MaxRequests
          /\ requests' = requests + 1

-----------------------------------------------------------------------------
(* ProductViewSet *)

\* ProductSerializer.is_valid: the validators of Product.price and Product.stock,
\* and the 3 decimal places of the stock field
ProductValid(payload) ==
    /\ payload.price >= 1
    /\ payload.stock >= 0
    /\ payload.stock % QtyUnit = 0

\* PUT /products/<id>/
ProductUpdate(u, p, payload) ==
    /\ Served
    /\ UNCHANGED <<users, cart, orders, order_items, restock_records>>
    /\ UNCHANGED <<attendance, creates, flights>>
    /\ IF ~IsDeveloperAdminOrModerator(u)
       THEN /\ resp' = Response("product_update", u, 403, "Permission denied")
            /\ UNCHANGED products
       ELSE IF p \notin DOMAIN products
       THEN /\ resp' = Response("product_update", u, 404, "Not found")
            /\ UNCHANGED products
       ELSE IF ~ProductValid(payload)
       THEN /\ resp' = Response("product_update", u, 400, "Validation error")
            /\ UNCHANGED products
       ELSE /\ products' = [products EXCEPT ![p] = payload]
            /\ resp' = Response("product_update", u, 200, "")

\* quantity = Decimal(str(request.data.get('quantity', 0)))
RestockQuantity(f) == IF f.has_quantity THEN f.quantity ELSE 0

\* Mutant: zero passes the check
RestockRejectedNegative(quantity) == quantity < 0

\* if quantity <= 0
RestockRejected(quantity) == quantity <= 0

\* Mutant: the quantity replaces the stock
RestockedStockReplaced(stock, quantity) == quantity

\* product.stock += quantity
RestockedStock(stock, quantity) == stock + quantity

\* RestockRecord.objects.create(...): the columns as the store keeps them
RestockRecordOf(u, p, quantity_added, stock_before, stock_after) ==
    [product |-> p,
     product_name |-> products[p].name,
     product_emoji |-> products[p].emoji,
     quantity_added |-> quantity_added,
     stock_before |-> stock_before,
     stock_after |-> stock_after,
     user |-> u,
     user_name |-> UserName(u)]

\* POST /products/<id>/restock/
Restock(u, p, f) ==
    /\ Served
    /\ UNCHANGED <<users, cart, orders, order_items>>
    /\ UNCHANGED <<attendance, creates, flights>>
    /\ IF ~IsDeveloperAdminOrModerator(u)
       THEN /\ resp' = Response("restock", u, 403, "Permission denied")
            /\ UNCHANGED <<products, restock_records>>
       ELSE IF p \notin DOMAIN products
       THEN /\ resp' = Response("restock", u, 404, "Not found")
            /\ UNCHANGED <<products, restock_records>>
       ELSE LET quantity == RestockQuantity(f)
                stock_before == products[p].stock
            IN  IF RestockRejected(quantity)
                THEN /\ resp' = Response("restock", u, 400,
                                         "Quantity must be greater than 0")
                     /\ UNCHANGED <<products, restock_records>>
                ELSE \E stock_after \in Quantize(RestockedStock(stock_before, quantity), QtyUnit),
                        quantity_added \in Quantize(quantity, QtyUnit) :
                        /\ products' = [products EXCEPT ![p].stock = stock_after]
                        /\ restock_records' = Append(restock_records,
                               RestockRecordOf(u, p, quantity_added, stock_before, stock_after))
                        /\ resp' = Response("restock", u, 200, "")

-----------------------------------------------------------------------------
(* CartViewSet *)

\* quantity = Decimal(str(request.data.get('quantity', 1)))
CartQuantity(req) == IF req.has_quantity THEN req.quantity ELSE One

\* Mutant: the request's quantity replaces the row's
NewQuantityReplaces(existing, quantity) == quantity

\* new_quantity = cart_item.quantity + quantity
NewQuantity(existing, quantity) == existing + quantity

\* if new_quantity > product.stock
InsufficientStock(new_quantity, stock) == new_quantity > stock

\* unique_together = ['user', 'product']: would a row for (u, p), other than
\* the one at position except, break it
CartUniqueViolation(u, p, except) == RowsFor(u, p) \ {except} # {}

\* POST /cart/
CartCreate(u, req) ==
    /\ Served
    /\ UNCHANGED <<users, products, orders, order_items, restock_records>>
    /\ UNCHANGED <<attendance, creates, flights>>
    /\ LET p == req.product_id
           quantity == CartQuantity(req)
       IN  IF p \notin DOMAIN products
           THEN /\ resp' = Response("cart_create", u, 404, "Product not found")
                /\ UNCHANGED cart
           ELSE IF RowsFor(u, p) = {}
           THEN \* get_or_create found no row: created with defaults
                \E stored \in Quantize(quantity, QtyUnit) :
                    /\ cart' = Append(cart, [user |-> u, product |-> p, quantity |-> stored])
                    /\ resp' = Response("cart_create", u, 201, "")
           ELSE LET i == CHOOSE i \in RowsFor(u, p) : TRUE
                    new_quantity == NewQuantity(cart[i].quantity, quantity)
                IN  IF InsufficientStock(new_quantity, products[p].stock)
                    THEN /\ resp' = Response("cart_create", u, 400, "Insufficient stock")
                         /\ UNCHANGED cart
                    ELSE \E stored \in Quantize(new_quantity, QtyUnit) :
                            /\ cart' = [cart EXCEPT ![i].quantity = stored]
                            /\ resp' = Response("cart_create", u, 201, "")

\* CartItemSerializer.is_valid: product_id names a Product; quantity is given,
\* has at most 3 decimal places and passes MinValueValidator(0.001)
CartItemValid(req) ==
    /\ req.product_id \in DOMAIN products
    /\ req.has_quantity
    /\ req.quantity % QtyUnit = 0
    /\ req.quantity >= QtyUnit

\* PUT /cart/<id>/ on the row at position i
CartUpdate(u, i, req) ==
    /\ Served
    /\ UNCHANGED <<users, products, orders, order_items, restock_records>>
    /\ UNCHANGED <<attendance, creates, flights>>
    /\ IF i \notin CartPositions(u)
       THEN /\ resp' = Response("cart_update", u, 404, "Not found")
            /\ UNCHANGED cart
       ELSE IF ~CartItemValid(req)
       THEN /\ resp' = Response("cart_update", u, 400, "Validation error")
            /\ UNCHANGED cart
       ELSE IF CartUniqueViolation(u, req.product_id, i)
       THEN \* the store rejects the UPDATE: IntegrityError, unhandled
            /\ resp' = Response("cart_update", u, 500, "IntegrityError")
            /\ UNCHANGED cart
       ELSE /\ cart' = [cart EXCEPT ![i] = [user |-> u, product |-> req.product_id,
                                            quantity |-> req.quantity]]
            /\ resp' = Response("cart_update", u, 200, "")

\* DELETE /cart/<id>/ on the row at position i
CartDestroy(u, i) ==
    /\ Served
    /\ UNCHANGED <<users, products, orders, order_items, restock_records>>
    /\ UNCHANGED <<attendance, creates, flights>>
    /\ IF i \notin CartPositions(u)
       THEN /\ resp' = Response("cart_destroy", u, 404, "Not found")
            /\ UNCHANGED cart
       ELSE /\ cart' = SubSeq(cart, 1, i - 1) \o SubSeq(cart, i + 1, Len(cart))
            /\ resp' = Response("cart_destroy", u, 204, "")

-----------------------------------------------------------------------------
(* OrderViewSet *)

\* Mutant: the price alone, as if one unit were bought
ItemTotalOfOne(row) == products[row.product].price * One

\* CartItem.item_total: product.price * quantity, in 1/CentUnit of a cent
ItemTotal(row) == products[row.product].price * row.quantity

\* total = sum(item.item_total for item in cart_items)
CartTotal(rows) == SumSeq([i \in 1..Len(rows) |-> ItemTotal(rows[i])])

\* item_count = sum(int(item.quantity) for item in cart_items)
ItemCount(rows) == SumSeq([i \in 1..Len(rows) |-> IntOf(rows[i].quantity)])

\* Order.objects.create(...), total as the 2-place column keeps it (cents)
OrderOf(u, total, item_count) ==
    [user |-> u,
     user_name |-> UserName(u),
     total |-> total,
     item_count |-> item_count,
     status |-> "Completed"]

\* OrderItem.objects.create(...) for one cart row
OrderItemOf(order, row) ==
    [order |-> order,
     product |-> row.product,
     product_name |-> products[row.product].name,
     product_emoji |-> products[row.product].emoji,
     price |-> products[row.product].price,
     quantity |-> row.quantity,
     is_sold_by_weight |-> products[row.product].is_sold_by_weight]

\* cart_item.product.stock -= cart_item.quantity; cart_item.product.save(), row
\* after row: save() writes the Product instance the row loaded when the total
\* was computed.  Both operands come from 3-place columns, so the difference
\* is stored as it is.
\* Mutant: the loop stops after the first row
UpdateStockOfFirst(prods, rows) ==
    IF rows = <<>> THEN prods
    ELSE [prods EXCEPT ![Head(rows).product] =
             [products[Head(rows).product] EXCEPT !.stock = @ - Head(rows).quantity]]

RECURSIVE UpdateStock(_, _)
UpdateStock(prods, rows) ==
    IF rows = <<>> THEN prods
    ELSE LET row == Head(rows)
             saved == [products[row.product] EXCEPT !.stock = @ - row.quantity]
         IN  UpdateStock([prods EXCEPT ![row.product] = saved], Tail(rows))

\* cart_items.delete(): DELETE ... WHERE user = u
ClearCart(u) == SelectSeq(cart, LAMBDA row : row.user # u)

\* POST /orders/checkout/
Checkout(u) ==
    /\ Served
    /\ UNCHANGED <<users, restock_records>>
    /\ UNCHANGED <<attendance, creates, flights>>
    /\ LET cart_items == CartOf(u)
       IN  IF cart_items = <<>>
           THEN /\ resp' = Response("checkout", u, 400, "Cart is empty")
                /\ UNCHANGED <<products, cart, orders, order_items>>
           ELSE \E stored \in Quantize(CartTotal(cart_items), CentUnit) :
                  LET order == Len(orders) + 1
                  IN  /\ orders' = Append(orders,
                             OrderOf(u, stored \div CentUnit, ItemCount(cart_items)))
                      /\ order_items' = order_items \o
                             [i \in 1..Len(cart_items) |-> OrderItemOf(order, cart_items[i])]
                      /\ products' = UpdateStock(products, cart_items)
                      /\ cart' = ClearCart(u)
                      /\ resp' = Response("checkout", u, 201, "")

-----------------------------------------------------------------------------
(* ProductViewSet and UserViewSet: create and destroy, with the on_delete
   rules of the foreign keys *)

\* IsDeveloperOrAdmin.has_permission
IsDeveloperOrAdmin(u) == users[u].role \in {"Developer", "Admin"}

\* POST /products/: the new row takes the next id.  No row refers to the id of
\* a deleted Product (destroy removes or nulls every reference), so one fresh
\* id stands for all of them.
ProductCreate(u, payload) ==
    /\ Served
    /\ UNCHANGED <<users, cart, orders, order_items, restock_records>>
    /\ UNCHANGED <<attendance, creates, flights>>
    /\ NewProductId \notin DOMAIN products
    /\ IF ~IsDeveloperAdminOrModerator(u)
       THEN /\ resp' = Response("product_create", u, 403, "Permission denied")
            /\ UNCHANGED products
       ELSE IF ~ProductValid(payload)
       THEN /\ resp' = Response("product_create", u, 400, "Validation error")
            /\ UNCHANGED products
       ELSE /\ products' = [p \in DOMAIN products \cup {NewProductId} |->
                              IF p = NewProductId THEN payload ELSE products[p]]
            /\ resp' = Response("product_create", u, 201, "")

\* on_delete of the foreign keys to Product: CartItem.product and
\* RestockRecord.product CASCADE, OrderItem.product SET_NULL
CartWithoutProduct(p) == SelectSeq(cart, LAMBDA row : row.product # p)

RestockRecordsWithoutProduct(p) ==
    SelectSeq(restock_records, LAMBDA row : row.product # p)

OrderItemsWithoutProduct(p) ==
    [i \in 1..Len(order_items) |->
        IF order_items[i].product = p
        THEN [order_items[i] EXCEPT !.product = Null]
        ELSE order_items[i]]

\* DELETE /products/<id>/
ProductDestroy(u, p) ==
    /\ Served
    /\ UNCHANGED <<users, orders>>
    /\ UNCHANGED <<attendance, creates, flights>>
    /\ IF ~IsDeveloperAdminOrModerator(u)
       THEN /\ resp' = Response("product_destroy", u, 403, "Permission denied")
            /\ UNCHANGED <<products, cart, order_items, restock_records>>
       ELSE IF p \notin DOMAIN products
       THEN /\ resp' = Response("product_destroy", u, 404, "Not found")
            /\ UNCHANGED <<products, cart, order_items, restock_records>>
       ELSE /\ products' = [q \in DOMAIN products \ {p} |-> products[q]]
            /\ cart' = CartWithoutProduct(p)
            /\ restock_records' = RestockRecordsWithoutProduct(p)
            /\ order_items' = OrderItemsWithoutProduct(p)
            /\ resp' = Response("product_destroy", u, 204, "")

\* UserViewSet.get_queryset: Developer rows are hidden from other roles
VisibleUsers(actor) ==
    {t \in DOMAIN users : users[actor].role = "Developer" \/ users[t].role # "Developer"}

\* on_delete of the foreign keys to User: CartItem.user and
\* AttendanceRecord.user CASCADE, Order.user and RestockRecord.user SET_NULL
CartWithoutUser(t) == SelectSeq(cart, LAMBDA row : row.user # t)

AttendanceWithoutUser(t) == SelectSeq(attendance, LAMBDA row : row.user # t)

OrdersWithoutUser(t) ==
    [i \in 1..Len(orders) |->
        IF orders[i].user = t THEN [orders[i] EXCEPT !.user = Null] ELSE orders[i]]

RestockRecordsWithoutUser(t) ==
    [i \in 1..Len(restock_records) |->
        IF restock_records[i].user = t
        THEN [restock_records[i] EXCEPT !.user = Null]
        ELSE restock_records[i]]

\* DELETE /users/<id>/
UserDestroy(actor, t) ==
    /\ Served
    /\ UNCHANGED <<products, order_items>>
    /\ UNCHANGED <<creates, flights>>
    /\ IF ~IsDeveloperOrAdmin(actor)
       THEN /\ resp' = Response("user_destroy", actor, 403, "Permission denied")
            /\ UNCHANGED <<users, cart, orders, restock_records, attendance>>
       ELSE IF t \notin VisibleUsers(actor)
       THEN /\ resp' = Response("user_destroy", actor, 404, "Not found")
            /\ UNCHANGED <<users, cart, orders, restock_records, attendance>>
       ELSE /\ users' = [v \in DOMAIN users \ {t} |-> users[v]]
            /\ cart' = CartWithoutUser(t)
            /\ attendance' = AttendanceWithoutUser(t)
            /\ orders' = OrdersWithoutUser(t)
            /\ restock_records' = RestockRecordsWithoutUser(t)
            /\ resp' = Response("user_destroy", actor, 204, "")

-----------------------------------------------------------------------------
(* AuthView, UserViewSet, ReportsView and the list routes.  The actor of a
   request is request.user, the User its bearer token names; a token is
   issued by a login and carries no copy of is_enabled. *)

InvalidCredentials == "Invalid credentials or account disabled"

\* django.contrib.auth.authenticate(username=..., password=...)
Authenticate(username, password) ==
    username \in DOMAIN users /\ password = "right"

\* user = authenticate(...); if user and user.is_enabled
LoginAllowed(username, password) ==
    Authenticate(username, password) /\ users[username].is_enabled

\* POST /auth/login/
Login(c) ==
    /\ Served
    /\ UNCHANGED <<users, products, cart, orders, order_items, restock_records>>
    /\ UNCHANGED <<attendance, creates, flights>>
    /\ IF c.username = "" \/ c.password = ""
       THEN resp' = Response("login", c.username, 400, "Username and password required")
       ELSE IF LoginAllowed(c.username, c.password)
       THEN resp' = Response("login", c.username, 200, "")
       ELSE resp' = Response("login", c.username, 401, InvalidCredentials)

\* UserSerializer.is_valid on a partial body: role is one of ROLE_CHOICES
UserValid(payload) == payload.role \in Roles \cup {""}

\* UserSerializer.update: setattr for every field the body gives
UpdatedUser(row, payload) ==
    [row EXCEPT !.role = IF payload.role = "" THEN @ ELSE payload.role,
                !.is_enabled = IF payload.is_enabled = "" THEN @
                               ELSE payload.is_enabled = "true"]

\* PATCH /users/<id>/
UserUpdate(actor, t, payload) ==
    /\ Served
    /\ UNCHANGED <<products, cart, orders, order_items, restock_records>>
    /\ UNCHANGED <<attendance, creates, flights>>
    /\ IF ~IsDeveloperOrAdmin(actor)
       THEN /\ resp' = Response("user_update", actor, 403, "Permission denied")
            /\ UNCHANGED users
       ELSE IF t \notin VisibleUsers(actor)
       THEN /\ resp' = Response("user_update", actor, 404, "Not found")
            /\ UNCHANGED users
       ELSE IF ~UserValid(payload)
       THEN /\ resp' = Response("user_update", actor, 400, "Validation error")
            /\ UNCHANGED users
       ELSE /\ users' = [users EXCEPT ![t] = UpdatedUser(@, payload)]
            /\ resp' = Response("user_update", actor, 200, "")

\* user.is_enabled = not user.is_enabled
Toggled(is_enabled) == ~is_enabled

\* POST /users/<id>/toggle_status/
ToggleStatus(actor, t) ==
    /\ Served
    /\ UNCHANGED <<products, cart, orders, order_items, restock_records>>
    /\ UNCHANGED <<attendance, creates, flights>>
    /\ IF ~IsDeveloperOrAdmin(actor)
       THEN /\ resp' = Response("toggle_status", actor, 403, "Permission denied")
            /\ UNCHANGED users
       ELSE IF t \notin VisibleUsers(actor)
       THEN /\ resp' = Response("toggle_status", actor, 404, "Not found")
            /\ UNCHANGED users
       ELSE IF t = actor
       THEN /\ resp' = Response("toggle_status", actor, 400,
                                "Cannot disable your own account")
            /\ UNCHANGED users
       ELSE /\ users' = [users EXCEPT ![t].is_enabled = Toggled(@)]
            /\ resp' = Response("toggle_status", actor, 200, "")

\* GET /reports/: aggregates read from the Order and OrderItem tables
Reports(u) ==
    /\ Served
    /\ UNCHANGED <<users, products, cart, orders, order_items, restock_records>>
    /\ UNCHANGED <<attendance, creates, flights>>
    /\ IF ~IsDeveloperAdminOrModerator(u)
       THEN resp' = Response("reports", u, 403, "Permission denied")
       ELSE resp' = Response("reports", u, 200, "")

\* permission_classes of the viewset behind a list route; IsAuthenticated
\* passes every actor
ListPermitted(view, u) ==
    IF view = "users" THEN IsDeveloperOrAdmin(u)
    ELSE IF view \in {"products", "attendance", "restock-records"}
    THEN IsDeveloperAdminOrModerator(u)
    ELSE TRUE

\* GET /<view>/
List(u, view) ==
    /\ Served
    /\ UNCHANGED <<users, products, cart, orders, order_items, restock_records>>
    /\ UNCHANGED <<attendance, creates, flights>>
    /\ IF ~ListPermitted(view, u)
       THEN resp' = Response(view, u, 403, "Permission denied")
       ELSE resp' = Response(view, u, 200, "")

-----------------------------------------------------------------------------
(* AttendanceRecordViewSet.create, step by step: requests interleave between
   its three visits to the store *)

\* AttendanceRecord.objects.filter(user_id=user_id, date=date)
AttendanceFor(user_id, date) ==
    {i \in 1..Len(attendance) :
        attendance[i].user = user_id /\ attendance[i].date = date}

\* The filter raises on a date that does not parse; the handler passes on
LookupRaises(data) == data.date = MalformedDate

\* if user_id and date: ... if existing
PrecheckFindsDuplicate(data) ==
    /\ data.user_id # ""
    /\ data.date # ""
    /\ ~LookupRaises(data)
    /\ AttendanceFor(data.user_id, data.date) # {}

\* The field errors of AttendanceRecordSerializer, in field order: user_id
\* names a User, date parses
FieldError(data) ==
    IF data.user_id \notin DOMAIN users THEN "user_id"
    ELSE IF data.date \in {"", MalformedDate} THEN "date"
    ELSE ""

\* The validator a ModelSerializer derives from unique_together, run by
\* is_valid() once the fields are valid
UniqueTogetherFails(data) == AttendanceFor(data.user_id, data.date) # {}

\* unique_together = ['user', 'date'] in the store: the INSERT is rejected
UniqueConstraintFails(data) == AttendanceFor(data.user_id, data.date) # {}

\* AttendanceRecordSerializer.create: the columns the model follows
AttendanceRecordOf(data) ==
    [user |-> data.user_id, date |-> data.date, status |-> data.status]

ConflictMessage == "Attendance record already exists for this employee on <date>"

\* The handler answers the request in slot r; duplicate records whether a
\* record for its (user, date) is in the table as it answers
Answer(r, status, error) ==
    creates' = [creates EXCEPT ![r] =
                   [@ EXCEPT !.pc = "done", !.status = status, !.error = error,
                             !.duplicate =
                                 AttendanceFor(creates[r].data.user_id,
                                               creates[r].data.date) # {}]]

StoreUntouched ==
    UNCHANGED <<users, products, cart, orders, order_items, restock_records, resp, requests,
                flights>>

\* The request arrives; permission_classes = [IsDeveloperAdminOrModerator]
\* turns it away before the handler runs
CreateStart(r, actor, data) ==
    /\ creates[r].pc = "idle"
    /\ StoreUntouched
    /\ UNCHANGED attendance
    /\ IF ~IsDeveloperAdminOrModerator(actor)
       THEN creates' = [creates EXCEPT ![r] =
                [pc |-> "done", actor |-> actor, data |-> data, status |-> 403,
                 error |-> "Permission denied", duplicate |-> FALSE]]
       ELSE creates' = [creates EXCEPT ![r] =
                [pc |-> "precheck", actor |-> actor, data |-> data, status |-> 0,
                 error |-> "", duplicate |-> FALSE]]

\* Check for duplicate FIRST, before serializer validation
CreatePrecheck(r) ==
    /\ creates[r].pc = "precheck"
    /\ StoreUntouched
    /\ UNCHANGED attendance
    /\ IF PrecheckFindsDuplicate(creates[r].data)
       THEN Answer(r, 409, ConflictMessage)
       ELSE creates' = [creates EXCEPT ![r].pc = "validate"]

\* if not serializer.is_valid(): 400 with the first error
CreateValidate(r) ==
    /\ creates[r].pc = "validate"
    /\ StoreUntouched
    /\ UNCHANGED attendance
    /\ LET data == creates[r].data
       IN  IF FieldError(data) # ""
           THEN Answer(r, 400, FieldError(data))
           ELSE IF UniqueTogetherFails(data)
           THEN Answer(r, 400,
                       "non_field_errors: The fields user_id, date must make a unique set.")
           ELSE creates' = [creates EXCEPT ![r].pc = "save"]

\* serializer.save(), and the IntegrityError branch
CreateSave(r) ==
    /\ creates[r].pc = "save"
    /\ StoreUntouched
    /\ LET data == creates[r].data
       IN  IF UniqueConstraintFails(data)
           THEN /\ Answer(r, 409, ConflictMessage)
                /\ UNCHANGED attendance
           ELSE /\ attendance' = Append(attendance, AttendanceRecordOf(data))
                /\ Answer(r, 201, "")

NextAttendance ==
    \/ \E r \in CreateSlots, actor \in Usernames, data \in AttendanceRequests :
          CreateStart(r, actor, data)
    \/ \E r \in CreateSlots : CreatePrecheck(r)
    \/ \E r \in CreateSlots : CreateValidate(r)
    \/ \E r \in CreateSlots : CreateSave(r)

\* Attendance creates running together
SpecAttendance == Init /\ [][NextAttendance]_vars

-----------------------------------------------------------------------------
(* AttendanceRecordViewSet.monthly_summary *)

\* The dates of the records a summary is taken of: two days of one month, the
\* month after, and the same month a year before
SummaryDates == {"2024-01-05", "2024-01-06", "2024-02-05", "2023-01-05"}

\* date__year and date__month of a DateField value
DateYear(date) == IF date = "2023-01-05" THEN 2023 ELSE 2024
DateMonth(date) == IF date = "2024-02-05" THEN 2 ELSE 1

\* The month parameter of GET /attendance/monthly_summary/: "" when left
\* out, and a string that does not split into two integers
MalformedMonth == "January"
MonthParams == {"2024-01", "2024-1", "2024-02", "2023-01", "", MalformedMonth}

\* year, month = map(int, month.split('-'))
ParseMonth(month) ==
    IF month \in {"2024-01", "2024-1"} THEN <<2024, 1>>
    ELSE IF month = "2024-02" THEN <<2024, 2>>
    ELSE <<2023, 1>>

\* timezone.now(): the year and month of the clock
Clock == {<<2024, 1>>, <<2024, 2>>}

\* A request and the clock as it is served; the clock is read only when the
\* request names no month
SummaryRequests ==
    {[month |-> m, now |-> <<2024, 1>>] : m \in MonthParams \ {""}}
        \cup {[month |-> "", now |-> n] : n \in Clock}

\* A day's record as the summary reads it: hours in 0.01 h, pay in cents.
\* is_present is a column of its own, whatever status says.
DayShapes ==
    { [status |-> "Present", is_present |-> TRUE, regular_hours |-> 800,
       overtime_hours |-> 200, daily_pay |-> 5000],
      [status |-> "Absent", is_present |-> FALSE, regular_hours |-> 0,
       overtime_hours |-> 0, daily_pay |-> 0] }

AttendanceRows ==
    {[user |-> u, date |-> d, status |-> sh.status, is_present |-> sh.is_present,
      regular_hours |-> sh.regular_hours, overtime_hours |-> sh.overtime_hours,
      daily_pay |-> sh.daily_pay] :
        u \in Usernames, d \in SummaryDates, sh \in DayShapes}

\* unique_together = ['user', 'date'] holds of a table
UniqueAttendance(rows) ==
    \A i, j \in 1..Len(rows) :
        (rows[i].user = rows[j].user /\ rows[i].date = rows[j].date) => i = j

RECURSIVE AttendanceTables(_)
\* The tables of at most n rows
AttendanceTables(n) ==
    IF n = 0 THEN {<<>>}
    ELSE LET shorter == AttendanceTables(n - 1)
         IN  shorter \cup
             {t \in {Append(rows, row) : rows \in shorter, row \in AttendanceRows} :
                 UniqueAttendance(t)}

\* Mutant: the year is not part of the filter
InMonthOfAnyYear(row, year, month) == DateMonth(row.date) = month

\* date__year=year, date__month=month
InMonth(row, year, month) ==
    DateYear(row.date) = year /\ DateMonth(row.date) = month

\* AttendanceRecord.objects.filter(user=user, date__year=year, date__month=month)
MonthRecords(v, year, month) ==
    SelectSeq(attendance, LAMBDA row : row.user = v /\ InMonth(row, year, month))

\* AttendanceRecord.total_hours
TotalHours(row) == row.regular_hours + row.overtime_hours

\* One entry of the summary
SummaryOf(v, year, month) ==
    LET records == MonthRecords(v, year, month)
    IN  [user_id |-> v,
         user_name |-> UserName(v),
         present_days |-> Len(SelectSeq(records, LAMBDA row : row.is_present)),
         absent_days |-> Len(SelectSeq(records, LAMBDA row : ~row.is_present)),
         total_hours |-> SumSeq([i \in 1..Len(records) |-> TotalHours(records[i])]),
         total_pay |-> SumSeq([i \in 1..Len(records) |-> records[i].daily_pay])]

\* The User table in primary-key order
UserOrder == <<"ama", "bob">>

\* users = User.objects.filter(is_enabled=True)
EnabledUsers ==
    SelectSeq(UserOrder, LAMBDA v : v \in DOMAIN users /\ users[v].is_enabled)

\* GET /attendance/monthly_summary/?month=<month>
MonthlySummary(u, month, now) ==
    /\ Served
    /\ UNCHANGED <<users, products, cart, orders, order_items, restock_records>>
    /\ UNCHANGED <<attendance, creates, flights>>
    /\ IF ~IsDeveloperAdminOrModerator(u)
       THEN resp' = Response("monthly_summary", u, 403, "Permission denied")
       ELSE IF month = MalformedMonth
       THEN \* int() raises ValueError, unhandled
            resp' = Response("monthly_summary", u, 500, "ValueError")
       ELSE LET ym == IF month # "" THEN ParseMonth(month) ELSE now
                enabled == EnabledUsers
            IN  resp' = [op |-> "monthly_summary", user |-> u, status |-> 200,
                         error |-> "",
                         body |-> [k \in 1..Len(enabled) |->
                                      SummaryOf(enabled[k], ym[1], ym[2])]]

\* A store with attendance on record, and bob's account enabled or not
InitSummary ==
    /\ users \in {[u \in Usernames |->
                     IF u = "ama"
                     THEN [name |-> "ahmad", role |-> "Developer", is_enabled |-> TRUE]
                     ELSE [name |-> "", role |-> "User", is_enabled |-> e]] :
                  e \in BOOLEAN}
    /\ products = [p \in ProductIds |->
                  IF p = "p1"
                  THEN [name |-> "Donut", emoji |-> "D", price |-> 249,
                        stock |-> 3 * One, is_sold_by_weight |-> FALSE]
                  ELSE [name |-> "Fudge", emoji |-> "F", price |-> 100,
                        stock |-> 2 * One, is_sold_by_weight |-> TRUE]]
    /\ cart = <<>>
    /\ orders = <<>>
    /\ order_items = <<>>
    /\ restock_records = <<>>
    /\ resp = NoResponse
    /\ requests = 0
    /\ attendance \in AttendanceTables(MaxRecords)
    /\ creates = [r \in CreateSlots |-> IdleCreate]
    /\ flights = [w \in FlightSlots |-> IdleFlight]

NextSummary ==
    \E u \in Usernames, q \in SummaryRequests : MonthlySummary(u, q.month, q.now)

SpecSummary == InitSummary /\ [][NextSummary]_vars

-----------------------------------------------------------------------------
(* restock, checkout and POST /cart/, statement by statement: every query is
   a statement of its own against the store, and requests in flight together
   interleave between them *)

\* Bodies the requests in flight carry: deliveries of 2 and of 0.0004, and
\* one unit of a product (no quantity named)
FlightRestockRequests == [has_quantity : {TRUE}, quantity : {2 * One, 4}]
FlightCartRequests ==
    {[product_id |-> p, has_quantity |-> FALSE, quantity |-> 0] : p \in ProductIds}

\* The seeded catalog
SeededProducts ==
    [p \in ProductIds |->
        IF p = "p1"
        THEN [name |-> "Donut", emoji |-> "D", price |-> 249,
              stock |-> 3 * One, is_sold_by_weight |-> FALSE]
        ELSE [name |-> "Fudge", emoji |-> "F", price |-> 100,
              stock |-> 2 * One, is_sold_by_weight |-> TRUE]]

\* The seeded store with one unit of p1 in bob's cart
InitFlights ==
    /\ users = [u \in Usernames |->
                  IF u = "ama"
                  THEN [name |-> "ahmad", role |-> "Developer", is_enabled |-> TRUE]
                  ELSE [name |-> "", role |-> "User", is_enabled |-> TRUE]]
    /\ products = SeededProducts
    /\ cart = <<[user |-> "bob", product |-> "p1", quantity |-> One]>>
    /\ orders = <<>>
    /\ order_items = <<>>
    /\ restock_records = <<>>
    /\ resp = NoResponse
    /\ requests = 0
    /\ attendance = <<>>
    /\ creates = [r \in CreateSlots |-> IdleCreate]
    /\ flights = [w \in FlightSlots |-> IdleFlight]

InFlight(w) == flights[w].pc \notin {"idle", "done"}

\* A request arrives in the first free slot; it and every request in flight
\* at that moment run interleaved from here on
Arrives(w, flight) ==
    /\ flights[w].pc = "idle"
    /\ \A v \in FlightSlots : v < w => flights[v].pc # "idle"
    /\ LET overlap == \E v \in FlightSlots : InFlight(v)
       IN  flights' = [v \in FlightSlots |->
                IF v = w THEN [flight EXCEPT !.overlapped = overlap]
                ELSE IF InFlight(v) THEN [flights[v] EXCEPT !.overlapped = TRUE]
                ELSE flights[v]]

\* The handler returns
Returns(flight, status, error) ==
    [flight EXCEPT !.pc = "done", !.status = status, !.error = error]

FlightOthersUntouched == UNCHANGED <<users, resp, requests, attendance, creates>>

\* restock, lines 106-110: get_object() loads the Product, then the checks
RestockStart(w, u, p, f) ==
    /\ FlightOthersUntouched
    /\ UNCHANGED <<products, cart, orders, order_items, restock_records>>
    /\ LET quantity == RestockQuantity(f)
           flight == [IdleFlight EXCEPT !.kind = "restock", !.user = u,
                                        !.product = p, !.quantity = quantity]
       IN  IF ~IsDeveloperAdminOrModerator(u)
           THEN Arrives(w, Returns(flight, 403, "Permission denied"))
           ELSE IF p \notin DOMAIN products
           THEN Arrives(w, Returns(flight, 404, "Not found"))
           ELSE IF RestockRejected(quantity)
           THEN Arrives(w, Returns(flight, 400, "Quantity must be greater than 0"))
           ELSE Arrives(w, [flight EXCEPT !.pc = "save", !.instance = products[p]])

\* restock, lines 112-114: the stock the instance was loaded with, plus the
\* quantity, is saved with the rest of the instance
RestockSave(w) ==
    /\ flights[w].kind = "restock" /\ flights[w].pc = "save"
    /\ FlightOthersUntouched
    /\ UNCHANGED <<cart, orders, order_items, restock_records>>
    /\ LET me == flights[w]
           stock == RestockedStock(me.instance.stock, me.quantity)
       IN  \E stored \in Quantize(stock, QtyUnit) :
              /\ products' = [products EXCEPT ![me.product] =
                                 [me.instance EXCEPT !.stock = stored]]
              /\ flights' = [flights EXCEPT ![w] =
                                 [me EXCEPT !.pc = "record", !.stock = stock]]

\* restock, lines 117-128: the RestockRecord, from the values the handler holds
RestockRecordSave(w) ==
    /\ flights[w].kind = "restock" /\ flights[w].pc = "record"
    /\ FlightOthersUntouched
    /\ UNCHANGED <<products, cart, orders, order_items>>
    /\ LET me == flights[w]
       IN  \E stock_after \in Quantize(me.stock, QtyUnit),
              quantity_added \in Quantize(me.quantity, QtyUnit) :
              /\ restock_records' = Append(restock_records,
                     [product |-> me.product,
                      product_name |-> me.instance.name,
                      product_emoji |-> me.instance.emoji,
                      quantity_added |-> quantity_added,
                      stock_before |-> me.instance.stock,
                      stock_after |-> stock_after,
                      user |-> me.user,
                      user_name |-> UserName(me.user)])
              /\ flights' = [flights EXCEPT ![w] = Returns(me, 200, "")]

\* checkout, lines 188-191: cart_items.exists()
CheckoutStart(w, u) ==
    /\ FlightOthersUntouched
    /\ UNCHANGED <<products, cart, orders, order_items, restock_records>>
    /\ LET flight == [IdleFlight EXCEPT !.kind = "checkout", !.user = u]
       IN  IF CartOf(u) = <<>>
           THEN Arrives(w, Returns(flight, 400, "Cart is empty"))
           ELSE Arrives(w, [flight EXCEPT !.pc = "read"])

\* checkout, lines 194-195: the queryset is evaluated and kept; item_total
\* loads each row's Product, which the row keeps too
CheckoutRead(w) ==
    /\ flights[w].kind = "checkout" /\ flights[w].pc = "read"
    /\ FlightOthersUntouched
    /\ UNCHANGED <<products, cart, orders, order_items, restock_records>>
    /\ LET cart_items == CartOf(flights[w].user)
       IN  flights' = [flights EXCEPT ![w] =
               [@ EXCEPT !.pc = "order",
                         !.rows = [i \in 1..Len(cart_items) |->
                                     [product |-> cart_items[i].product,
                                      quantity |-> cart_items[i].quantity,
                                      instance |-> products[cart_items[i].product]]]]]

\* The sums of lines 194-195 over the rows the handler holds
HeldTotal(rows) ==
    SumSeq([i \in 1..Len(rows) |-> rows[i].instance.price * rows[i].quantity])
HeldCount(rows) == SumSeq([i \in 1..Len(rows) |-> IntOf(rows[i].quantity)])

\* checkout, lines 198-204: Order.objects.create(...)
CheckoutOrder(w) ==
    /\ flights[w].kind = "checkout" /\ flights[w].pc = "order"
    /\ FlightOthersUntouched
    /\ UNCHANGED <<products, cart, order_items, restock_records>>
    /\ LET me == flights[w]
       IN  \E stored \in Quantize(HeldTotal(me.rows), CentUnit) :
              /\ orders' = Append(orders,
                     OrderOf(me.user, stored \div CentUnit, HeldCount(me.rows)))
              /\ flights' = [flights EXCEPT ![w] =
                     [me EXCEPT !.pc = IF me.rows = <<>> THEN "delete" ELSE "items",
                                !.order = Len(orders) + 1, !.idx = 1]]

\* checkout, lines 207-220, one turn of the loop: the OrderItem, then the
\* row's Product saved with its stock lowered from what the row loaded
CheckoutItem(w) ==
    /\ flights[w].kind = "checkout" /\ flights[w].pc = "items"
    /\ FlightOthersUntouched
    /\ UNCHANGED <<cart, orders, restock_records>>
    /\ LET me == flights[w]
           row == me.rows[me.idx]
       IN  /\ order_items' = Append(order_items,
                  [order |-> me.order,
                   product |-> row.product,
                   product_name |-> row.instance.name,
                   product_emoji |-> row.instance.emoji,
                   price |-> row.instance.price,
                   quantity |-> row.quantity,
                   is_sold_by_weight |-> row.instance.is_sold_by_weight])
           /\ products' = [products EXCEPT ![row.product] =
                  [row.instance EXCEPT !.stock = @ - row.quantity]]
           /\ flights' = [flights EXCEPT ![w] =
                  [me EXCEPT !.pc = IF me.idx = Len(me.rows) THEN "delete" ELSE "items",
                             !.idx = me.idx + 1]]

\* checkout, lines 223-226: cart_items.delete() is a DELETE of the user's rows
\* as they are now; a POST /cart/ that holds one of them holds a row that is
\* gone
CheckoutDelete(w) ==
    /\ flights[w].kind = "checkout" /\ flights[w].pc = "delete"
    /\ FlightOthersUntouched
    /\ UNCHANGED <<products, orders, order_items, restock_records>>
    /\ cart' = ClearCart(flights[w].user)
    /\ flights' = [v \in FlightSlots |->
           IF v = w THEN Returns(flights[w], 201, "")
           ELSE IF flights[v].kind = "add" /\ flights[v].pc = "save"
                   /\ flights[v].user = flights[w].user
           THEN [flights[v] EXCEPT !.row_gone = TRUE]
           ELSE flights[v]]

\* POST /cart/, lines 142-160: the Product is loaded, get_or_create finds the
\* row or creates it, and the sum is checked against the stock loaded
AddStart(w, u, req) ==
    /\ FlightOthersUntouched
    /\ UNCHANGED <<products, orders, order_items, restock_records>>
    /\ LET p == req.product_id
           quantity == CartQuantity(req)
           flight == [IdleFlight EXCEPT !.kind = "add", !.user = u, !.product = p]
       IN  IF p \notin DOMAIN products
           THEN /\ Arrives(w, Returns(flight, 404, "Product not found"))
                /\ UNCHANGED cart
           ELSE IF RowsFor(u, p) = {}
           THEN \E stored \in Quantize(quantity, QtyUnit) :
                    /\ cart' = Append(cart, [user |-> u, product |-> p,
                                             quantity |-> stored])
                    /\ Arrives(w, Returns(flight, 201, ""))
           ELSE LET i == CHOOSE i \in RowsFor(u, p) : TRUE
                    new_quantity == NewQuantity(cart[i].quantity, quantity)
                IN  /\ UNCHANGED cart
                    /\ IF InsufficientStock(new_quantity, products[p].stock)
                       THEN Arrives(w, Returns(flight, 400, "Insufficient stock"))
                       ELSE Arrives(w, [flight EXCEPT !.pc = "save",
                                                      !.quantity = new_quantity])

\* POST /cart/, lines 161-165: cart_item.save() is an UPDATE by primary key,
\* and an INSERT when the UPDATE finds no row
AddSave(w) ==
    /\ flights[w].kind = "add" /\ flights[w].pc = "save"
    /\ FlightOthersUntouched
    /\ UNCHANGED <<products, orders, order_items, restock_records>>
    /\ LET me == flights[w]
           held == RowsFor(me.user, me.product)
       IN  IF me.row_gone /\ held # {}
           THEN \* a row made since takes the (user, product) pair
                /\ flights' = [flights EXCEPT ![w] = Returns(me, 500, "IntegrityError")]
                /\ UNCHANGED cart
           ELSE \E stored \in Quantize(me.quantity, QtyUnit) :
                   /\ cart' = IF me.row_gone
                              THEN Append(cart, [user |-> me.user, product |-> me.product,
                                                 quantity |-> stored])
                              ELSE [cart EXCEPT ![CHOOSE i \in held : TRUE].quantity = stored]
                   /\ flights' = [flights EXCEPT ![w] = Returns(me, 201, "")]

NextFlights ==
    \/ \E w \in FlightSlots, u \in Usernames, p \in ProductIds,
          f \in FlightRestockRequests : RestockStart(w, u, p, f)
    \/ \E w \in FlightSlots : RestockSave(w)
    \/ \E w \in FlightSlots : RestockRecordSave(w)
    \/ \E w \in FlightSlots, u \in Usernames : CheckoutStart(w, u)
    \/ \E w \in FlightSlots : CheckoutRead(w)
    \/ \E w \in FlightSlots : CheckoutOrder(w)
    \/ \E w \in FlightSlots : CheckoutItem(w)
    \/ \E w \in FlightSlots : CheckoutDelete(w)
    \/ \E w \in FlightSlots, u \in Usernames, req \in FlightCartRequests :
          AddStart(w, u, req)
    \/ \E w \in FlightSlots : AddSave(w)

\* Restocks, checkouts and cart adds running together
SpecFlights == InitFlights /\ [][NextFlights]_vars

-----------------------------------------------------------------------------
(* The store under requests served one at a time *)

Next ==
    \/ \E u \in Usernames, p \in ProductIds \cup {UnknownProductId},
          payload \in ProductPayloads : ProductUpdate(u, p, payload)
    \/ \E u \in Usernames, p \in ProductIds \cup {UnknownProductId},
          f \in RestockRequests : Restock(u, p, f)
    \/ \E u \in Usernames, req \in CartCreateRequests : CartCreate(u, req)
    \/ \E u \in Usernames, i \in 1..Len(cart), req \in CartUpdateRequests :
          CartUpdate(u, i, req)
    \/ \E u \in Usernames, i \in 1..Len(cart) : CartDestroy(u, i)
    \/ \E u \in Usernames : Checkout(u)

Spec == Init /\ [][Next]_vars

\* The catalog and the ledgers under every request that writes them, served
\* one at a time; a deleted user holds no valid credential
NextCatalog ==
    \/ \E u \in DOMAIN users, payload \in ProductPayloads : ProductCreate(u, payload)
    \/ \E u \in DOMAIN users, p \in ProductIds, payload \in ProductPayloads :
          ProductUpdate(u, p, payload)
    \/ \E u \in DOMAIN users, p \in ProductIds \cup {NewProductId} : ProductDestroy(u, p)
    \/ \E actor \in DOMAIN users, t \in Usernames : UserDestroy(actor, t)
    \/ \E u \in DOMAIN users, p \in ProductIds, f \in CatalogRestockRequests :
          Restock(u, p, f)
    \/ \E u \in DOMAIN users, req \in CatalogCartRequests : CartCreate(u, req)
    \/ \E u \in DOMAIN users : Checkout(u)

SpecCatalog == Init /\ [][NextCatalog]_vars

\* Accounts, roles and the routes each role may use, requests served one at a
\* time
NextAccounts ==
    \/ \E c \in Credentials : Login(c)
    \/ \E actor \in Usernames, t \in Usernames, payload \in UserPayloads :
          UserUpdate(actor, t, payload)
    \/ \E actor \in Usernames, t \in Usernames : ToggleStatus(actor, t)
    \/ \E u \in Usernames : Reports(u)
    \/ \E u \in Usernames, view \in ListViews : List(u, view)
    \/ \E u \in Usernames, payload \in ProductPayloads : ProductUpdate(u, "p1", payload)
    \/ \E u \in Usernames, f \in CatalogRestockRequests : Restock(u, "p1", f)
    \/ \E u \in Usernames, req \in CatalogCartRequests : CartCreate(u, req)
    \/ \E u \in Usernames : Checkout(u)

SpecAccounts == Init /\ [][NextAccounts]_vars

-----------------------------------------------------------------------------
(* Vocabulary of the properties, stated on the tables alone *)

RECURSIVE SumOf(_, _)
\* The sum of f over the set S
SumOf(f, S) ==
    IF S = {} THEN 0
    ELSE LET x == CHOOSE x \in S : TRUE IN f[x] + SumOf(f, S \ {x})

\* Positions of u's rows in the cart before the step
RowsOf(u) == {i \in 1..Len(cart) : cart[i].user = u}

\* The step answers u's checkout with 201 Created
CheckedOut(u) == resp'.op = "checkout" /\ resp'.user = u /\ resp'.status = 201

\* Positions of the OrderItem rows the step adds
NewItems == (Len(order_items) + 1)..Len(order_items')

\* price * quantity summed over u's cart rows, in 1/CentUnit of a cent
ExactTotal(u) ==
    SumOf([i \in RowsOf(u) |-> products[cart[i].product].price * cart[i].quantity],
          RowsOf(u))

\* The quantities of u's cart rows, each truncated to an integer, summed
TruncatedCount(u) ==
    SumOf([i \in RowsOf(u) |->
              IF cart[i].quantity >= 0 THEN cart[i].quantity \div One
              ELSE -((-cart[i].quantity) \div One)],
          RowsOf(u))

\* The step adds one Completed Order of u with the item count of the cart, and
\* one OrderItem per cart row of u with the row's quantity and the product's
\* fields as they are before the step
OrderSnapshotsCart(u) ==
    /\ Len(orders') = Len(orders) + 1
    /\ SubSeq(orders', 1, Len(orders)) = orders
    /\ orders'[Len(orders')].user = u
    /\ orders'[Len(orders')].status = "Completed"
    /\ orders'[Len(orders')].item_count = TruncatedCount(u)
    /\ SubSeq(order_items', 1, Len(order_items)) = order_items
    /\ Cardinality(NewItems) = Cardinality(RowsOf(u))
    /\ \A i \in RowsOf(u) :
          /\ Cardinality({j \in NewItems : order_items'[j].product = cart[i].product}) = 1
          /\ \A j \in NewItems :
                order_items'[j].product = cart[i].product =>
                    /\ order_items'[j].order = Len(orders')
                    /\ order_items'[j].quantity = cart[i].quantity
                    /\ order_items'[j].product_name = products[cart[i].product].name
                    /\ order_items'[j].product_emoji = products[cart[i].product].emoji
                    /\ order_items'[j].price = products[cart[i].product].price
                    /\ order_items'[j].is_sold_by_weight =
                           products[cart[i].product].is_sold_by_weight

-----------------------------------------------------------------------------
(* C1 *)

\* C1 as stated: a successful checkout(user) adds exactly one Completed Order
\* whose total equals the sum of price * quantity over the user's cart rows and
\* whose item_count is the sum of the truncated quantities, and one OrderItem
\* per cart row with the row's quantity and the product's current fields.
C1_TotalIsExactSum ==
    [][\A u \in Usernames :
          CheckedOut(u) =>
              /\ OrderSnapshotsCart(u)
              /\ orders'[Len(orders')].total * CentUnit = ExactTotal(u)]_vars

\* C1 amended: as C1, but the Order's total is the sum of price * quantity
\* rounded to 2 decimal places (it is within half a cent of the sum).
C1_TotalIsRoundedSum ==
    [][\A u \in Usernames :
          CheckedOut(u) =>
              /\ OrderSnapshotsCart(u)
              /\ 2 * Abs(orders'[Len(orders')].total * CentUnit - ExactTotal(u))
                     <= CentUnit]_vars

\* The spec's example: rows (2.49, 3) and (1.00, 2) were checked out into an
\* Order with total 9.47 and item_count 5 and two OrderItems worth 7.47 and 2.00.
C1_Witness ==
    /\ resp.op = "checkout" /\ resp.status = 201
    /\ Len(orders) = 1 /\ Len(order_items) = 2
    /\ orders[1].total = 947 /\ orders[1].item_count = 5
    /\ order_items[1].price = 249 /\ order_items[1].quantity = 3 * One
    /\ order_items[2].price = 100 /\ order_items[2].quantity = 2 * One

-----------------------------------------------------------------------------
(* C2 *)

\* C2: after a successful checkout(user) the user's cart has no rows, each
\* product that had a row in it has its stock lowered by exactly that row's
\* quantity, and every other product keeps its stock.
C2_CheckoutClearsCartAndLowersStock ==
    [][\A u \in Usernames :
          CheckedOut(u) =>
              /\ \A j \in 1..Len(cart') : cart'[j].user # u
              /\ DOMAIN products' = DOMAIN products
              /\ \A i \in RowsOf(u) :
                    products'[cart[i].product].stock =
                        products[cart[i].product].stock - cart[i].quantity
              /\ \A p \in DOMAIN products :
                    (\A i \in RowsOf(u) : cart[i].product # p) =>
                        products'[p].stock = products[p].stock]_vars

\* A checkout of 3 of p1 left p1 out of stock, p2 untouched, the buyer's cart
\* empty and another user's row in place.
C2_Witness ==
    /\ resp.op = "checkout" /\ resp.status = 201
    /\ Len(order_items) = 1
    /\ order_items[1].product = "p1" /\ order_items[1].quantity = 3 * One
    /\ products["p1"].stock = 0
    /\ products["p2"].stock = 2 * One
    /\ Len(cart) = 1 /\ cart[1].user # resp.user

-----------------------------------------------------------------------------
(* C3 *)

\* C3: in every reachable state every product's stock is >= 0.
C3_StockNeverNegative == \A p \in DOMAIN products : products[p].stock >= 0

-----------------------------------------------------------------------------
(* C4 *)

\* C4: a restock(product, q) with q > 0 that runs alone leaves the stock at
\* its value before the call plus q and appends one RestockRecord with
\* quantity_added = q, stock_before = the prior stock, stock_after =
\* stock_before + quantity_added and the acting user; and every RestockRecord
\* satisfies stock_after = stock_before + quantity_added.
C4_RestockAddsQuantity ==
    [][(resp'.op = "restock" /\ resp'.status = 200) =>
       \A u \in Usernames, p \in ProductIds, f \in RestockRequests :
          (resp'.user = u /\ f.has_quantity /\ f.quantity > 0
             /\ Restock(u, p, f)) =>
              /\ products'[p].stock = products[p].stock + f.quantity
              /\ Len(restock_records') = Len(restock_records) + 1
              /\ SubSeq(restock_records', 1, Len(restock_records)) = restock_records
              /\ LET r == restock_records'[Len(restock_records')]
                 IN  /\ r.product = p
                     /\ r.user = u
                     /\ r.quantity_added = f.quantity
                     /\ r.stock_before = products[p].stock
              /\ \A k \in 1..Len(restock_records') :
                    restock_records'[k].stock_after =
                        restock_records'[k].stock_before
                            + restock_records'[k].quantity_added]_vars

-----------------------------------------------------------------------------
(* C5 *)

\* C5: restock(product, q) with q <= 0, a missing quantity counting as 0,
\* always fails (for a permitted actor and an existing product with the error
\* 'Quantity must be greater than 0'), leaves the stock unchanged and appends
\* no RestockRecord.
C5_RestockRejectsNonPositive ==
    [][resp'.op = "restock" =>
       \A u \in Usernames, p \in ProductIds \cup {UnknownProductId},
          f \in RestockRequests :
          (resp'.user = u /\ (~f.has_quantity \/ f.quantity <= 0)
             /\ Restock(u, p, f)) =>
              /\ resp'.op = "restock"
              /\ resp'.status >= 400
              /\ products' = products
              /\ restock_records' = restock_records
              /\ (users[u].role \in {"Developer", "Admin", "Moderator"}
                    /\ p \in DOMAIN products) =>
                     /\ resp'.status = 400
                     /\ resp'.error = "Quantity must be greater than 0"]_vars

\* A restock was refused for its quantity, and no RestockRecord exists.
C5_Witness ==
    /\ resp.op = "restock" /\ resp.status = 400
    /\ resp.error = "Quantity must be greater than 0"
    /\ restock_records = <<>>

-----------------------------------------------------------------------------
(* C6 *)

\* C6: checkout(user) on a cart with no rows fails with 'Cart is empty' and
\* changes nothing: no Order, no OrderItem, no stock change.
C6_EmptyCartCheckoutFails ==
    [][\A u \in Usernames :
          (resp'.op = "checkout" /\ resp'.user = u /\ RowsOf(u) = {}) =>
              /\ resp'.status = 400
              /\ resp'.error = "Cart is empty"
              /\ UNCHANGED <<users, products, cart, orders, order_items,
                             restock_records>>]_vars

\* A checkout was refused for an empty cart while another user's cart holds
\* a row, and no Order exists.
C6_Witness ==
    /\ resp.op = "checkout" /\ resp.status = 400 /\ resp.error = "Cart is empty"
    /\ RowsOf(resp.user) = {}
    /\ cart # <<>>
    /\ orders = <<>> /\ order_items = <<>>

-----------------------------------------------------------------------------
(* C7 *)

\* C7: a create for a (user, date) that already has a record is always
\* answered 409 with the conflict message, never with a validation or a
\* generic error, whether the pre-check finds the duplicate or a concurrent
\* create won the race; no existing record is overwritten; and there is at
\* most one record per (user, date) in every reachable state.
C7_DuplicateAlwaysConflict ==
    [][/\ \A r \in CreateSlots :
            (creates'[r].pc = "done" /\ creates'[r].duplicate) =>
                /\ creates'[r].status = 409
                /\ creates'[r].error = ConflictMessage
       /\ \A i \in 1..Len(attendance) : attendance'[i] = attendance[i]
       /\ \A i, j \in 1..Len(attendance') :
            (attendance'[i].user = attendance'[j].user
               /\ attendance'[i].date = attendance'[j].date) => i = j
      ]_vars

-----------------------------------------------------------------------------
(* C8 *)

\* Positions of the cart rows for (u, p) before the step
PairRows(u, p) == {i \in 1..Len(cart) : cart[i].user = u /\ cart[i].product = p}

\* The quantity a POST /cart/ body asks for: 1 when it names none
AskedQuantity(req) == IF req.has_quantity THEN req.quantity ELSE One

\* C8: adding a product to a cart that already holds a row for (user, product),
\* the summed quantity not exceeding the product's stock, updates that single
\* row to the summed quantity; and there is at most one CartItem per
\* (user, product) in every reachable state.
C8_AddMergesIntoOneRow ==
    [][/\ resp'.op = "cart_create" =>
          \A u \in Usernames, req \in CartCreateRequests :
            (resp'.user = u /\ req.product_id \in DOMAIN products
               /\ PairRows(u, req.product_id) # {}
               /\ CartCreate(u, req)) =>
                \A i \in PairRows(u, req.product_id) :
                    cart[i].quantity + AskedQuantity(req) <= products[req.product_id].stock =>
                        /\ Len(cart') = Len(cart)
                        /\ cart'[i].quantity = cart[i].quantity + AskedQuantity(req)
                        /\ \A j \in 1..Len(cart) : j # i => cart'[j] = cart[j]
       /\ \A i, j \in 1..Len(cart') :
            (cart'[i].user = cart'[j].user /\ cart'[i].product = cart'[j].product) => i = j
      ]_vars

-----------------------------------------------------------------------------
(* C9 *)

\* C9: add(user, product, quantity) when a row for (user, product) exists and
\* existing quantity + quantity exceeds the product's stock fails with
\* 'Insufficient stock' and leaves that row, the product's stock and every
\* other row unchanged; add with an unknown product id fails with 404
\* 'Product not found' and creates no cart row.
C9_AddFailuresChangeNothing ==
    [][resp'.op = "cart_create" =>
       \A u \in Usernames, req \in CartCreateRequests :
          /\ (/\ resp'.user = u
              /\ req.product_id \in DOMAIN products
              /\ \E i \in PairRows(u, req.product_id) :
                    cart[i].quantity + AskedQuantity(req) > products[req.product_id].stock
              /\ CartCreate(u, req)) =>
                 /\ resp'.status = 400
                 /\ resp'.error = "Insufficient stock"
                 /\ cart' = cart
                 /\ products' = products
          /\ (/\ resp'.user = u
              /\ req.product_id \notin DOMAIN products
              /\ CartCreate(u, req)) =>
                 /\ resp'.status = 404
                 /\ resp'.error = "Product not found"
                 /\ cart' = cart
                 /\ products' = products]_vars

\* An add to an existing row was refused for insufficient stock, and the row
\* is still in the cart.
C9_Witness ==
    /\ resp.op = "cart_create" /\ resp.status = 400
    /\ resp.error = "Insufficient stock"
    /\ \E i \in 1..Len(cart) : cart[i].user = resp.user /\ cart[i].quantity > 0

-----------------------------------------------------------------------------
(* C10 *)

\* C10: in every reachable state every CartItem has quantity > 0.
C10_CartQuantityPositive == \A i \in 1..Len(cart) : cart[i].quantity > 0

-----------------------------------------------------------------------------
(* C11 *)

\* C11: a product's stock changes only through checkout, which lowers it, and
\* restock, which raises it: every other operation (product create, update and
\* delete, cart operations, user operations) leaves the stock of every
\* existing product unchanged.
C11_StockChangesOnlyByCheckoutAndRestock ==
    [][\A p \in DOMAIN products \cap DOMAIN products' :
          products'[p].stock # products[p].stock =>
              \/ resp'.op = "checkout" /\ products'[p].stock < products[p].stock
              \/ resp'.op = "restock" /\ products'[p].stock > products[p].stock]_vars

-----------------------------------------------------------------------------
(* C12 *)

\* C12: Orders, OrderItems and RestockRecords are append-only: once created, a
\* row still exists with the field values it was created with after any later
\* operation, product and user edits and deletions, checkouts and restocks
\* included.
C12_LedgersAppendOnly ==
    [][/\ Len(orders') >= Len(orders)
       /\ \A i \in 1..Len(orders) : orders'[i] = orders[i]
       /\ Len(order_items') >= Len(order_items)
       /\ \A i \in 1..Len(order_items) : order_items'[i] = order_items[i]
       /\ Len(restock_records') >= Len(restock_records)
       /\ \A i \in 1..Len(restock_records) :
             restock_records'[i] = restock_records[i]]_vars

-----------------------------------------------------------------------------
(* C13 *)

\* C13: an acting user can never disable their own account: any attempt to do
\* so fails and leaves their is_enabled unchanged; toggle_status on a
\* different user (one the actor may manage and can see) succeeds and flips
\* that user's is_enabled while leaving every other user's unchanged.
C13_NoSelfDisable ==
    [][\A a \in Usernames :
          (resp'.user = a /\ resp'.op # "login") =>
            /\ users[a].is_enabled => users'[a].is_enabled
            /\ \A payload \in UserPayloads :
                  (payload.is_enabled = "false" /\ UserUpdate(a, a, payload)) =>
                      resp'.status >= 400 /\ users' = users
            /\ \A t \in Usernames :
                  (resp'.op = "toggle_status" /\ ToggleStatus(a, t)) =>
                      IF t = a
                      THEN resp'.status >= 400 /\ users' = users
                      ELSE (IsDeveloperOrAdmin(a) /\ t \in VisibleUsers(a)) =>
                              /\ resp'.status = 200
                              /\ users'[t].is_enabled = ~users[t].is_enabled
                              /\ \A v \in Usernames \ {t} :
                                    users'[v].is_enabled = users[v].is_enabled]_vars

-----------------------------------------------------------------------------
(* C14 *)

\* C14: while a user's is_enabled is false, a login for that user fails with
\* the error a wrong password gets, and every operation the user attempts,
\* also with a bearer credential issued before the account was disabled, is
\* rejected with no state change.
C14_DisabledUserIsLockedOut ==
    [][/\ \A c \in Credentials :
            (resp'.op = "login" /\ Login(c) /\ c.password # ""
               /\ (c.password = "wrong"
                     \/ (c.username \in DOMAIN users /\ ~users[c.username].is_enabled))) =>
                /\ resp'.status = 401
                /\ resp'.error = InvalidCredentials
       /\ \A u \in Usernames :
            (resp'.user = u /\ ~users[u].is_enabled) =>
                /\ resp'.status >= 400
                /\ UNCHANGED <<users, products, cart, orders, order_items,
                               restock_records, attendance>>]_vars

-----------------------------------------------------------------------------
(* C15 *)

\* The routes of each gate, by the op a response names
UserManagementOps == {"users", "user_update", "user_destroy", "toggle_status"}
StockOps == {"products", "product_create", "product_update", "product_destroy",
             "restock", "attendance", "restock-records"}
CartAndOrderOps == {"cart", "cart_create", "cart_update", "cart_destroy",
                    "orders", "checkout"}

\* C15: user-management and reports operations succeed only for Admin or
\* Developer; product, stock, attendance, restock and restock-record
\* operations succeed only for Moderator, Admin or Developer; cart and order
\* operations are open to every authenticated user; a request below the
\* required role is rejected with no state change.
C15_RoleGates ==
    [][resp'.user \in Usernames =>
        LET role == users[resp'.user].role
            ok == resp'.status < 400
        IN  /\ (resp'.op \in UserManagementOps \cup {"reports"} /\ ok) =>
                    role \in {"Admin", "Developer"}
            /\ (resp'.op \in StockOps /\ ok) =>
                    role \in {"Moderator", "Admin", "Developer"}
            /\ resp'.op \in CartAndOrderOps => resp'.status # 403
            /\ resp'.op \in {"cart", "orders"} => ok
            /\ resp'.status = 403 =>
                    UNCHANGED <<users, products, cart, orders, order_items,
                                restock_records, attendance>>]_vars

-----------------------------------------------------------------------------
(* C16 *)

\* Positions of v's attendance records dated in the given year and month
RecordsInMonth(v, ym) ==
    {i \in 1..Len(attendance) :
        /\ attendance[i].user = v
        /\ DateYear(attendance[i].date) = ym[1]
        /\ DateMonth(attendance[i].date) = ym[2]}

\* C16: monthly_summary(month) returns exactly one entry for every user with
\* is_enabled true and none for disabled users; each entry's present_days,
\* absent_days, total_hours and total_pay aggregate only that user's records
\* dated within the given year-month, and a user with no record in the month
\* appears with all four aggregates equal to 0.
C16_SummaryPerEnabledUser ==
    [][(resp'.op = "monthly_summary" /\ resp'.status = 200) =>
       \A u \in Usernames, q \in SummaryRequests :
          (resp'.user = u /\ q.month # "" /\ MonthlySummary(u, q.month, q.now)) =>
              LET body == resp'.body
                  ym == ParseMonth(q.month)
              IN  /\ \A v \in DOMAIN users :
                        Cardinality({k \in 1..Len(body) : body[k].user_id = v})
                            = IF users[v].is_enabled THEN 1 ELSE 0
                  /\ \A k \in 1..Len(body) :
                        LET v == body[k].user_id
                            mine == RecordsInMonth(v, ym)
                        IN  /\ v \in DOMAIN users
                            /\ body[k].present_days =
                                  Cardinality({i \in mine : attendance[i].is_present})
                            /\ body[k].absent_days =
                                  Cardinality({i \in mine : ~attendance[i].is_present})
                            /\ body[k].total_hours =
                                  SumOf([i \in mine |-> attendance[i].regular_hours
                                                          + attendance[i].overtime_hours],
                                        mine)
                            /\ body[k].total_pay =
                                  SumOf([i \in mine |-> attendance[i].daily_pay], mine)
                            /\ mine = {} =>
                                  /\ body[k].present_days = 0
                                  /\ body[k].absent_days = 0
                                  /\ body[k].total_hours = 0
                                  /\ body[k].total_pay = 0]_vars

\* A summary of January 2024 was returned with two entries: ama with one
\* present day, 10 hours and 50.00 of pay, and bob, whose only record is of
\* another month, with zeros.
C16_Witness ==
    /\ resp.op = "monthly_summary" /\ resp.status = 200
    /\ Len(resp.body) = 2
    /\ resp.body[1].user_id = "ama" /\ resp.body[1].present_days = 1
    /\ resp.body[1].total_hours = 1000 /\ resp.body[1].total_pay = 5000
    /\ resp.body[2].user_id = "bob" /\ resp.body[2].present_days = 0
    /\ resp.body[2].absent_days = 0 /\ resp.body[2].total_hours = 0
    /\ resp.body[2].total_pay = 0
    /\ \E i \in 1..Len(attendance) : attendance[i].user = "bob"

-----------------------------------------------------------------------------
(* C17 *)

\* What the logs say p's stock is: the seeded stock, plus every recorded
\* quantity_added, minus every ordered quantity
Ledger(p) ==
    LET added == {i \in 1..Len(restock_records) : restock_records[i].product = p}
        sold == {i \in 1..Len(order_items) : order_items[i].product = p}
    IN  SeededProducts[p].stock
          + SumOf([i \in added |-> restock_records[i].quantity_added], added)
          - SumOf([i \in sold |-> order_items[i].quantity], sold)

\* No request is in flight
Quiet == \A w \in FlightSlots : flights[w].pc \in {"idle", "done"}

-----------------------------------------------------------------------------
(* C18 *)

\* C18: each cart row is converted into at most one OrderItem and no cart row
\* is removed by checkout without having been ordered at its current
\* quantity: under any interleaving of checkouts and cart adds of one user,
\* the quantities in the OrderItems a checkout created equal the quantities
\* of the cart rows it deletes, product by product.
C18_OrderedEqualsDeleted ==
    [][\A w \in FlightSlots :
          (flights[w].kind = "checkout" /\ flights[w].pc = "delete"
             /\ flights'[w].pc = "done") =>
              \A p \in ProductIds :
                  {order_items[j].quantity :
                      j \in {k \in 1..Len(order_items) :
                                /\ order_items[k].order = flights[w].order
                                /\ order_items[k].product = p}}
                  = {cart[i].quantity :
                      i \in {k \in 1..Len(cart) :
                                /\ cart[k].user = flights[w].user
                                /\ cart[k].product = p
                                /\ \A m \in 1..Len(cart') : cart'[m] # cart[k]}}]_vars

====
